---- MODULE Spec2Model ----
(***************************************************************************)
(* Verification model of the document-verification backend                 *)
(* (verifier_app): the SubmittedDocument aggregate, the template field     *)
(* matcher, the upload / dedup gate, the Celery processing task and the    *)
(* review queue.                                                           *)
(*                                                                         *)
(* Conventions.  Confidences and thresholds are percentages (0.95 -> 95).  *)
(* NULL is the value of an unset column / a Python None.  Lookups on the   *)
(* settings object resolve to the values of core/config.py.                *)
(***************************************************************************)
EXTENDS Integers, Sequences, FiniteSets, TLC

VARIABLES
    \* --- domains/documents/entities.py : one SubmittedDocument ---
    status,              \* SubmittedDocument.status
    processing_history,  \* SubmittedDocument.processing_history
    validation_result,   \* SubmittedDocument.validation_result
    ocr_blocks,          \* SubmittedDocument.ocr_blocks (number of blocks)
    last_call,           \* the method of SubmittedDocument called last
    \* --- the template handed to the field matcher and its output ---
    template,            \* the Template row under verification
    llm_review,          \* llm_validation_result["is_valid"]
    field_validation,    \* result of _validate_template_fields
    matcher_pc,          \* "ready" before the matcher ran, "done" after
    \* --- the database (infrastructure/database/models.py) ---
    verification_records, \* table verification_records: id -> row
    documents,           \* table documents: id -> row
    templates,           \* table templates: id -> row
    template_data,       \* rows of the per-template data tables: {<<template, document>>}
    storage,             \* storage paths written (one per document id)
    ocr_calls,           \* number of OCR invocations made
    \* --- document_processor.py : one process_uploaded_file call per client ---
    upload,              \* client -> the locals and position of its call
    requests,            \* number of upload requests received so far
    \* --- tasks/document_tasks.py : Celery messages and the task_records table ---
    tasks,               \* task id -> the message and the position of its execution
    task_records,        \* table task_records: task_id -> row
    countdowns,          \* task id -> countdowns its retries were scheduled with
    \* --- review_queue_service.py : submit_review_decision ---
    last_decision,       \* the arguments and the result of the last call
    \* --- review_queue_service.py : get_pending_reviews ---
    pending_reviews,     \* the arguments and the result of the last call
    \* --- web/webhooks.py : the in-memory stores ---
    webhooks_db,         \* webhook id -> its registration
    deliveries_db,       \* delivery records, in the order they were created
    \* --- services/webhook_service.py : table webhook_deliveries ---
    webhook_deliveries,  \* rows, in the order they were inserted
    \* --- tasks/document_tasks.py : reprocess_document_async executions ---
    reprocess_tasks,     \* the executions, in the order they were started
    \* --- review_queue_service.py : one batch_assign_reviews call per reviewer ---
    assign_pc,           \* reviewer -> "idle" | "selected" | "returned"
    assign_rows,         \* reviewer -> ids its query loaded
    assigned_items       \* reviewer -> ids the call returned

entity_vars == <<status, processing_history, validation_result, ocr_blocks, last_call>>
matcher_vars == <<template, llm_review, field_validation, matcher_pc>>
review_vars == <<assign_pc, assign_rows, assigned_items>>
db_vars == <<verification_records, documents, templates, template_data>>
upload_vars == <<storage, ocr_calls, upload, requests>>
task_vars == <<tasks, task_records, countdowns>>
decision_vars == <<last_decision>>
listing_vars == <<pending_reviews>>
webhook_vars == <<webhooks_db, deliveries_db, webhook_deliveries>>
pool_vars == <<reprocess_tasks>>
outer_vars == <<listing_vars, webhook_vars, pool_vars>>

NULL == "NULL"

(***************************************************************************)
(* Bounds                                                                  *)
(***************************************************************************)
MaxHistory == 2      \* events appended to one SubmittedDocument
MaxFields == 2       \* field definitions of one template
MaxBlocks == 1       \* OCR blocks handed to set_ocr_result
MaxRecords == 2      \* rows of verification_records
MaxCount == 2        \* the count argument of batch_assign_reviews
MaxRequests == 3     \* upload requests received
MaxTasks == 2        \* task ids handed out
MaxSweepTasks == 4   \* task ids handed out where the periodic sweep is studied
MaxWebhooks == 2     \* webhooks registered at one time
MaxDeliveries == 2   \* delivery records created
MaxAttemptRows == 8  \* rows of the webhook delivery table
PoolSize == 1        \* worker processes of the pool

(***************************************************************************)
(* domains/documents/entities.py                                           *)
(***************************************************************************)
\* entities.DocumentStatus
EntityStatus == {"pending", "processing", "passed", "failed", "review_required"}

\* ProcessingEvent(event=..., metadata=...)
ProcessingEvent(event, metadata) == [event |-> event, metadata |-> metadata]

\* metadata dictionaries a caller may pass; None is written as the empty
\* dictionary, which `metadata or {}` turns it into
NoMeta == <<>>
CallerMetadata == {NoMeta, ("reason" :> "manual"), ("from" :> "failed")}

\* `metadata or {}`
OrEmpty(metadata) == IF DOMAIN metadata = {} THEN NoMeta ELSE metadata

\* {"from": old_status, "to": new_status, **(metadata or {})}: keys of the
\* caller's metadata replace the keys written before them
StatusChangeMetadata(old_status, new_status, metadata) ==
    OrEmpty(metadata) @@ ("from" :> old_status @@ "to" :> new_status)

\* a history writer that puts the new event first
AppendEventPrepending(history, event, metadata) ==
    <<[event |-> event, metadata |-> metadata]>> \o history

\* add_processing_event: self.processing_history.append(...)
AppendEvent(history, event, metadata) ==
    Append(history, ProcessingEvent(event, OrEmpty(metadata)))

\* a classifier that fails every unsuccessful result outright
ClassifiedStatusNoReview(result) ==
    IF result.is_success THEN "passed" ELSE "failed"

\* the status set_validation_result moves the document to
ClassifiedStatus(result) ==
    IF result.is_success THEN "passed"
    ELSE IF result.missing_fields # <<>> \/ result.low_confidence_fields # <<>>
         THEN "review_required"
         ELSE "failed"

add_processing_event(event, metadata) ==
    /\ Len(processing_history) < MaxHistory
    /\ processing_history' = AppendEvent(processing_history, event, metadata)
    /\ last_call' = "add_processing_event"
    /\ UNCHANGED <<status, validation_result, ocr_blocks>>

update_status(new_status, metadata) ==
    /\ Len(processing_history) < MaxHistory
    /\ status' = new_status
    /\ processing_history' =
          AppendEvent(processing_history, "status_changed",
                      StatusChangeMetadata(status, new_status, metadata))
    /\ last_call' = "update_status"
    /\ UNCHANGED <<validation_result, ocr_blocks>>

set_ocr_result(blocks) ==
    /\ Len(processing_history) < MaxHistory
    /\ ocr_blocks' = blocks
    /\ processing_history' =
          AppendEvent(processing_history, "ocr_completed",
                      ("blocks_count" :> blocks))
    /\ last_call' = "set_ocr_result"
    /\ UNCHANGED <<status, validation_result>>

set_validation_result(result) ==
    /\ Len(processing_history) < MaxHistory
    /\ validation_result' = result
    /\ status' = ClassifiedStatus(result)
    /\ processing_history' =
          AppendEvent(processing_history, "status_changed",
                      StatusChangeMetadata(status, ClassifiedStatus(result), NoMeta))
    /\ last_call' = "set_validation_result"
    /\ UNCHANGED ocr_blocks

(***************************************************************************)
(* infrastructure/services/document_processor.py : the field matcher       *)
(***************************************************************************)
\* mock_extracted_data: the fields the extraction yields
mock_extracted_data ==
    ("name" :> "Wang" @@ "date" :> "2023-10-26" @@ "id_number" :> "A123456789")

\* mock_per_field_confidence
mock_per_field_confidence == ("name" :> 95 @@ "date" :> 80 @@ "id_number" :> 88)

\* mock_bboxes
mock_bboxes == ("name" :> "ocr_bbox_name" @@ "date" :> "ocr_bbox_date"
                @@ "id_number" :> "ocr_bbox_id_number")

\* names a template field may carry: the three extracted ones and one that
\* the extraction never yields
FieldNames == {"name", "date", "id_number", "address"}

\* values of Template.confidence_threshold
GlobalThresholds == {0, 70, 85, 90}

\* values of a per-field threshold inside the field-definition JSON
FieldThresholds == {70, 90}

\* one entry of Template.field_definitions (a JSON object); the key
\* confidence_threshold is optional
FieldDefinitions ==
    [name : FieldNames, bbox : {"template_bbox"}]
    \cup [name : FieldNames, bbox : {"template_bbox"},
          confidence_threshold : FieldThresholds]

\* `template.confidence_threshold or 0.8`
ThresholdOrDefault(t) ==
    IF t.confidence_threshold = 0 THEN 80 ELSE t.confidence_threshold

\* expected_fields = {field["name"]: field for field in field_definitions}:
\* a name keeps the place of its first definition and the value of its last
RECURSIVE expected_fields(_)
expected_fields(defs) ==
    IF defs = <<>> THEN <<>>
    ELSE LET rest == expected_fields(SubSeq(defs, 1, Len(defs) - 1))
             last == defs[Len(defs)]
         IN IF \E i \in DOMAIN rest : rest[i].name = last.name
            THEN [i \in DOMAIN rest |->
                     IF rest[i].name = last.name THEN last ELSE rest[i]]
            ELSE Append(rest, last)

\* the empty accumulator of the matching loop
EmptyMatch == [field_results |-> <<>>, missing_fields |-> <<>>,
               low_confidence_fields |-> <<>>]

\* one iteration of the loop over expected_fields.items()
MatchField(acc, field_def, t) ==
    IF field_def.name \notin DOMAIN mock_extracted_data
    THEN [acc EXCEPT !.missing_fields =
             Append(@, [field_name |-> field_def.name, bbox |-> field_def.bbox,
                        reason |-> "not_found"])]
    ELSE LET confidence == mock_per_field_confidence[field_def.name]
             low == IF confidence < ThresholdOrDefault(t)
                    THEN Append(acc.low_confidence_fields,
                                [field_name |-> field_def.name,
                                 bbox |-> field_def.bbox,
                                 reason |-> "low_confidence",
                                 confidence |-> confidence])
                    ELSE acc.low_confidence_fields
         IN [acc EXCEPT
               !.low_confidence_fields = low,
               !.field_results =
                   (field_def.name :> [confidence |-> confidence,
                                       bbox |-> mock_bboxes[field_def.name],
                                       value |-> mock_extracted_data[field_def.name]])
                   @@ @]

RECURSIVE MatchLoop(_, _)
MatchLoop(fields, t) ==
    IF fields = <<>> THEN EmptyMatch
    ELSE MatchField(MatchLoop(SubSeq(fields, 1, Len(fields) - 1), t),
                    fields[Len(fields)], t)

\* _validate_template_fields
validate_template_fields(t) ==
    LET m == MatchLoop(expected_fields(t.field_definitions), t)
    IN [is_valid |-> (Len(m.missing_fields) = 0 /\ Len(m.low_confidence_fields) = 0),
        extracted_data |-> mock_extracted_data,
        field_results |-> m.field_results,
        missing_fields |-> m.missing_fields,
        low_confidence_fields |-> m.low_confidence_fields]

\* the verdict _verify_document derives from the two checks and hands on:
\* is_valid = llm.is_valid and field.is_valid, with the matcher's lists
ValidationResultOf(llm_is_valid, fv) ==
    [is_success |-> (llm_is_valid /\ fv.is_valid),
     missing_fields |-> fv.missing_fields,
     low_confidence_fields |-> fv.low_confidence_fields]

\* Template rows with at most n field definitions
TemplatesUpTo(n) ==
    UNION { [field_definitions : [1..k -> FieldDefinitions],
             confidence_threshold : GlobalThresholds] : k \in 0..n }

\* a validation result before any validation ran
NoFieldValidation == validate_template_fields(
    [field_definitions |-> <<>>, confidence_threshold |-> 90])

(***************************************************************************)
(* infrastructure/database/models.py : rows                                *)
(***************************************************************************)
\* members of the enum VerificationStatus
VerificationStatus == {"PENDING", "PASS", "FAIL", "MANUAL_REVIEW"}

\* members of the enum ReviewStatus
ReviewStatus == {"PENDING", "ASSIGNED", "IN_PROGRESS", "COMPLETED", "CANCELLED"}

\* a nullable Float column: <<>> is NULL, <<x>> the value x
NoNumber == <<>>
Confidences == {NoNumber, <<20>>, <<60>>, <<90>>}

\* SQL `column < x` and `column >= x`: never true of NULL
SqlLess(column, x) == column # NoNumber /\ column[1] < x
SqlAtLeast(column, x) == column # NoNumber /\ column[1] >= x

\* VerificationRecord(document_id=..., template_id=..., status=PENDING) with
\* the column defaults of the model
VerificationRecord(document_id, template_id) ==
    [document_id |-> document_id,
     template_id |-> template_id,
     status |-> "PENDING",
     overall_confidence |-> NoNumber,
     requires_manual_review |-> FALSE,
     review_status |-> "PENDING",
     assigned_to |-> NULL,
     reviewed_by |-> NULL,
     manual_review_notes |-> NULL,
     extracted_data |-> NULL]

\* rows are kept in the order of their created_at: row i was created i-th
RecordIds == DOMAIN verification_records

(***************************************************************************)
(* infrastructure/services/review_queue_service.py                         *)
(***************************************************************************)
Reviewers == {"alice", "bob"}

\* the priority argument the route lets through, NULL when absent
PriorityFilters == {NULL, "high", "medium", "low"}

\* the WHERE clause of batch_assign_reviews
AssignQueryMatches(row, priority_filter) ==
    /\ row.requires_manual_review = TRUE
    /\ row.review_status = "PENDING"
    /\ (priority_filter = "high" => SqlLess(row.overall_confidence, 50))
    /\ (priority_filter = "low" => SqlAtLeast(row.overall_confidence, 70))

\* the members of a set of row ids in ascending order (created_at.asc())
Ascending(ids) ==
    [k \in 1..Cardinality(ids) |->
        CHOOSE x \in ids : Cardinality({y \in ids : y < x}) = k - 1]

\* .limit(count)
Limit(ids, count) == SubSeq(ids, 1, IF Len(ids) < count THEN Len(ids) ELSE count)

\* query.order_by(created_at.asc()).limit(count).all()
records_to_assign(count, priority_filter) ==
    Limit(Ascending({i \in RecordIds :
                        AssignQueryMatches(verification_records[i], priority_filter)}),
          count)

Range(f) == {f[i] : i \in DOMAIN f}

\* batch_assign_reviews up to .all(): the session loads the matching rows
AssignSelect(reviewer_id, count, priority_filter) ==
    /\ assign_pc[reviewer_id] = "idle"
    /\ assign_rows' = [assign_rows EXCEPT
                          ![reviewer_id] = records_to_assign(count, priority_filter)]
    /\ assign_pc' = [assign_pc EXCEPT ![reviewer_id] = "selected"]
    /\ UNCHANGED <<assigned_items, db_vars>>

\* the loop over the loaded rows and db.commit(): each loaded row is
\* written back with the reviewer as assignee, whatever the row holds by now
AssignCommit(reviewer_id) ==
    /\ assign_pc[reviewer_id] = "selected"
    /\ verification_records' =
          [i \in RecordIds |->
              IF i \in Range(assign_rows[reviewer_id])
              THEN [verification_records[i] EXCEPT
                       !.assigned_to = reviewer_id,
                       !.review_status = "ASSIGNED"]
              ELSE verification_records[i]]
    /\ assigned_items' = [assigned_items EXCEPT
                             ![reviewer_id] = assign_rows[reviewer_id]]
    /\ assign_pc' = [assign_pc EXCEPT ![reviewer_id] = "returned"]
    /\ UNCHANGED <<assign_rows, documents, templates, template_data>>

(***************************************************************************)
(* infrastructure/database/models.py : documents and templates             *)
(***************************************************************************)
\* members of the enum DocumentStatus of the database models
DocumentStatus ==
    {"UPLOADED", "PROCESSING", "OCR_COMPLETED", "VERIFIED", "FAILED", "ARCHIVED"}

\* uuid4(): the ids handed out, in the order they are drawn
DocumentIds == <<"D1", "D2", "D3", "D4", "D5", "D6">>
NewDocumentId == DocumentIds[Cardinality(DOMAIN documents) + 1]

\* Document(...): the columns the pipeline reads and writes
Document(file_hash, storage_path, doc_status) ==
    [file_hash |-> file_hash,
     storage_path |-> storage_path,
     status |-> doc_status,
     ocr_confidence |-> NoNumber]

\* storage_path = Column(String(500), nullable=False): the INSERT of a row
\* without a storage path is refused
InsertAccepted(row) == row.storage_path # NULL

\* db.add(document); db.commit()
InsertDocument(id, row) == (id :> row) @@ documents

\* the ids of the templates in the database and one that is not
TemplateIds == {"T1"}
UnknownTemplateId == "T9"

\* Template rows as the template routes write them: the column default
\* threshold and field definitions without a threshold of their own
StoredTemplates ==
    {t \in TemplatesUpTo(1) :
        /\ t.confidence_threshold = 90
        /\ \A i \in DOMAIN t.field_definitions :
              "confidence_threshold" \notin DOMAIN t.field_definitions[i]}

(***************************************************************************)
(* document_processor.py : _verify_document                                *)
(***************************************************************************)
\* what the LLM adapter can do when asked to validate the content: answer
\* valid or invalid, catch a failure of its API call and answer with the
\* error, or let an exception through
LlmOutcomes == {"valid", "invalid", "raises", "api_error"}

\* the dict _llm_content_review returns: the answer of the adapter, or for
\* an exception the default is_valid True with confidence 0.5; an API error
\* caught by the adapter is answered with is_valid False and no confidence
llm_content_review(llm_outcome) ==
    CASE llm_outcome = "valid" -> [is_valid |-> TRUE, confidence |-> <<88>>]
      [] llm_outcome = "invalid" -> [is_valid |-> FALSE, confidence |-> <<88>>]
      [] llm_outcome = "api_error" -> [is_valid |-> FALSE, confidence |-> NoNumber]
      [] llm_outcome = "raises" -> [is_valid |-> TRUE, confidence |-> <<50>>]

\* llm_validation_result.get("is_valid", False)
LlmIsValid(llm_outcome) == llm_content_review(llm_outcome).is_valid

\* the locals of _verify_document before the review ran
NoLlmResult == [is_valid |-> FALSE, confidence |-> NoNumber]

\* getattr on the enum: VerificationStatus.<name> exists
HasMember(name) == name \in VerificationStatus

\* the next id of verification_records
NewRecordId == Len(verification_records) + 1

\* _verify_document(document, template_id, db): the database it leaves and
\* whether it raised.  table_created and data_stored are the answers of the
\* dynamic table service.
verify_document(d, template_id, llm_outcome, table_created, data_stored) ==
    IF template_id \notin DOMAIN templates
    THEN \* raise ValueError("Template not found"); no record was created
         [raised |-> TRUE, is_valid |-> FALSE, records |-> verification_records,
          documents |-> documents, template_data |-> template_data]
    ELSE
    LET created == Append(verification_records, VerificationRecord(d, template_id))
        fv == validate_template_fields(templates[template_id])
        is_valid == LlmIsValid(llm_outcome) /\ fv.is_valid
        stored == is_valid /\ table_created /\ data_stored
        \* _handle_successful_verification
        sink == IF stored THEN template_data \cup {<<template_id, d>>}
                ELSE template_data
        docs == IF stored THEN [documents EXCEPT ![d].status = "VERIFIED"]
                ELSE documents
        new_status == IF is_valid THEN "COMPLETED" ELSE "FAILED"
    IN IF HasMember(new_status)
       THEN [raised |-> FALSE, is_valid |-> is_valid,
             records |-> [created EXCEPT ![NewRecordId].status = new_status],
             documents |-> docs, template_data |-> sink]
       ELSE \* AttributeError; the handler writes VerificationStatus.FAILED
            IF HasMember("FAILED")
            THEN [raised |-> TRUE, is_valid |-> is_valid,
                  records |-> [created EXCEPT ![NewRecordId].status = "FAILED"],
                  documents |-> docs, template_data |-> sink]
            ELSE [raised |-> TRUE, is_valid |-> is_valid, records |-> created,
                  documents |-> docs, template_data |-> sink]

(***************************************************************************)
(* document_processor.py : process_uploaded_file                           *)
(***************************************************************************)
Clients == {"c1", "c2"}

\* settings.max_file_size_mb
MAX_FILE_SIZE_MB == 50

\* settings.supported_file_types
SUPPORTED_FILE_TYPES == {"pdf", "jpg", "jpeg", "png", "tiff", "bmp"}

\* uploaded files: their bytes and len(file_content)
Files ==
    {[content |-> "bytes_a", size |-> 1024],
     [content |-> "bytes_b", size |-> 1024],
     [content |-> "bytes_huge", size |-> MAX_FILE_SIZE_MB * 1024 * 1024 + 1]}

\* file_content = b"", the first case of test_error_handling
EmptyFile == [content |-> "", size |-> 0]

\* Path(filename).suffix of the uploaded file names
Suffixes == {".pdf", ".PDF", ".exe"}

\* Path(filename).suffix.lower().lstrip('.')
FileExtension(suffix) ==
    CASE suffix = ".pdf" -> "pdf"
      [] suffix = ".PDF" -> "pdf"
      [] suffix = ".exe" -> "exe"

\* hashlib.sha256(file_content).hexdigest(): one digest per content
Sha256(content) ==
    CASE content = "" -> "digest_empty"
      [] content = "bytes_a" -> "digest_a"
      [] content = "bytes_b" -> "digest_b"
      [] content = "bytes_huge" -> "digest_huge"

\* generate_storage_path(filename, document_id)
StoragePath(id) == <<"documents", id>>

\* values of the template_id argument: absent, a stored template, an unknown one
TemplateArguments == {NULL} \cup TemplateIds \cup {UnknownTemplateId}

\* `if template_id:`
Truthy(template_id) == template_id # NULL

\* OCR confidences the engine reports
OcrConfidences == {<<95>>}

IdleCall == [pc |-> "idle", file_hash |-> NULL, template_id |-> NULL,
             document_id |-> NULL, result |-> NULL, result_document_id |-> NULL,
             llm_outcome |-> NULL, llm_validation_result |-> NoLlmResult,
             is_valid |-> FALSE]

\* a duplicate lookup that only sees documents whose OCR completed
DocumentsWithHashCompleted(file_hash) ==
    {d \in DOMAIN documents : /\ documents[d].file_hash = file_hash
                              /\ documents[d].status = "OCR_COMPLETED"}

\* documents whose file_hash is the given digest
DocumentsWithHash(file_hash) ==
    {d \in DOMAIN documents : documents[d].file_hash = file_hash}

\* the call ends: it returned `result` or raised (result "error")
Returned(call, result, id) ==
    [call EXCEPT !.pc = "returned", !.result = result, !.result_document_id = id]

\* steps 1-3: size and type checks, digest, duplicate lookup
UploadBegin(c, file, suffix, template_id) ==
    /\ upload[c].pc \in {"idle", "returned"}
    /\ LET call == [IdleCall EXCEPT !.file_hash = Sha256(file.content),
                                    !.template_id = template_id]
           existing == DocumentsWithHash(Sha256(file.content))
       IN IF file.size > MAX_FILE_SIZE_MB * 1024 * 1024
          THEN upload' = [upload EXCEPT ![c] = Returned(IdleCall, "error", NULL)]
          ELSE IF FileExtension(suffix) \notin SUPPORTED_FILE_TYPES
          THEN upload' = [upload EXCEPT ![c] = Returned(IdleCall, "error", NULL)]
          ELSE IF existing # {}
          THEN \* .first() of an unordered query: one of the matching rows
               \E d \in existing :
                   upload' = [upload EXCEPT ![c] = Returned(call, "duplicate", d)]
          ELSE upload' = [upload EXCEPT ![c] = [call EXCEPT !.pc = "uploading"]]
    /\ requests < MaxRequests
    /\ requests' = requests + 1
    /\ UNCHANGED <<storage, ocr_calls, db_vars>>

\* steps 5-6: the file is written to storage and the Document row committed
UploadStore(c) ==
    /\ upload[c].pc = "uploading"
    /\ LET id == NewDocumentId
       IN /\ storage' = storage \cup {StoragePath(id)}
          /\ documents' = InsertDocument(id,
                 Document(upload[c].file_hash, StoragePath(id), "PROCESSING"))
          /\ upload' = [upload EXCEPT ![c].pc = "ocr", ![c].document_id = id]
    /\ UNCHANGED <<requests, ocr_calls, verification_records, templates, template_data>>

\* step 5 raises: there is no document yet, the exception leaves the call
UploadStoreFails(c) ==
    /\ upload[c].pc = "uploading"
    /\ upload' = [upload EXCEPT ![c] = Returned(upload[c], "error", NULL)]
    /\ UNCHANGED <<requests, storage, ocr_calls, db_vars>>

\* step 7: OCR succeeds, the row becomes OCR_COMPLETED; without template the
\* call returns
UploadOcr(c, confidence) ==
    /\ upload[c].pc = "ocr"
    /\ ocr_calls' = ocr_calls + 1
    /\ documents' = [documents EXCEPT
                        ![upload[c].document_id].status = "OCR_COMPLETED",
                        ![upload[c].document_id].ocr_confidence = confidence]
    /\ upload' = [upload EXCEPT ![c] =
                     IF Truthy(upload[c].template_id)
                     THEN [upload[c] EXCEPT !.pc = "verify"]
                     ELSE Returned(upload[c], "success", upload[c].document_id)]
    /\ UNCHANGED <<requests, storage, verification_records, templates, template_data>>

\* step 7 raises and the handler re-raises without touching the document
UploadOcrFailsDocumentKept(c) ==
    /\ upload[c].pc = "ocr"
    /\ ocr_calls' = ocr_calls + 1
    /\ upload' = [upload EXCEPT ![c] = Returned(upload[c], "error", NULL)]
    /\ UNCHANGED <<requests, storage, documents, verification_records,
                   templates, template_data>>

\* step 7 raises: the handler marks the document FAILED and re-raises
UploadOcrFails(c) ==
    /\ upload[c].pc = "ocr"
    /\ ocr_calls' = ocr_calls + 1
    /\ documents' = [documents EXCEPT ![upload[c].document_id].status = "FAILED"]
    /\ upload' = [upload EXCEPT ![c] = Returned(upload[c], "error", NULL)]
    /\ UNCHANGED <<requests, storage, verification_records, templates, template_data>>

\* step 8: _verify_document; when it raises the handler marks the document
\* FAILED and re-raises
UploadVerify(c, llm_outcome, table_created, data_stored) ==
    /\ upload[c].pc = "verify"
    /\ LET d == upload[c].document_id
           v == verify_document(d, upload[c].template_id, llm_outcome,
                                table_created, data_stored)
       IN /\ verification_records' = v.records
          /\ template_data' = v.template_data
          /\ documents' = IF v.raised
                          THEN [v.documents EXCEPT ![d].status = "FAILED"]
                          ELSE v.documents
          /\ upload' = [upload EXCEPT ![c] =
                LET call == IF upload[c].template_id \in DOMAIN templates
                            THEN [upload[c] EXCEPT
                                    !.llm_outcome = llm_outcome,
                                    !.llm_validation_result =
                                        llm_content_review(llm_outcome),
                                    !.is_valid = v.is_valid]
                            ELSE upload[c]
                IN IF v.raised THEN Returned(call, "error", NULL)
                   ELSE Returned(call, "success", d)]
    /\ UNCHANGED <<requests, storage, ocr_calls, templates>>

(***************************************************************************)
(* infrastructure/web/processing.py : POST /process-async                  *)
(***************************************************************************)
\* the Document row is added without storage_path and committed before the
\* file is uploaded and the task submitted; a refused INSERT ends the
\* request with status 500
ProcessAsyncRequest(c, file) ==
    /\ upload[c].pc \in {"idle", "returned"}
    /\ file.size > 0
    /\ LET row == Document(Sha256(file.content), NULL, "UPLOADED")
       IN /\ ~InsertAccepted(row)
          /\ upload' = [upload EXCEPT ![c] = Returned(IdleCall, "error_500", NULL)]
    /\ requests < MaxRequests
    /\ requests' = requests + 1
    /\ UNCHANGED <<storage, ocr_calls, db_vars>>

(***************************************************************************)
(* infrastructure/tasks/document_tasks.py : process_document_async         *)
(***************************************************************************)
\* Task.max_retries of a task declared without one (task_max_retries)
max_retries == 3

\* the base of the countdown handed to self.retry
RetryBase == 60

\* 2 ** n
RECURSIVE Pow2(_)
Pow2(n) == IF n = 0 THEN 1 ELSE 2 * Pow2(n - 1)

\* countdown=60 * (2 ** self.request.retries)
RetryCountdown(retries) == RetryBase * Pow2(retries)

\* the ids Celery hands out to the messages, in the order they are drawn
TaskIds == <<"K1", "K2", "K3", "K4", "K5">>
NewTaskId(n) == TaskIds[Cardinality(DOMAIN tasks) + n]

\* apply_async(args=[document_id, template_id], kwargs={"priority": ...}):
\* the message in the queue; the priority parameter defaults to "normal"
TaskMessage(document_id, template_id, priority) ==
    [document_id |-> document_id, template_id |-> template_id,
     priority |-> priority, retries |-> 0, pc |-> "queued", error |-> NULL,
     revoked |-> FALSE, redelivered |-> FALSE, requeue_of |-> NULL]

\* TaskRecord(task_id=..., document_id=..., status="STARTED"); the column
\* default of retry_count is 0
TaskRecord(document_id) ==
    [document_id |-> document_id, status |-> "STARTED", retry_count |-> 0,
     aged |-> FALSE]

\* `except Exception`: the document becomes FAILED and the record FAILURE,
\* both committed; then, while retries remain, retry_count is incremented
\* and the task requeued with a countdown, else the exception is re-raised.
\* docs is the documents table at the time of the exception.
TaskFails(k, error, docs) ==
    /\ documents' = [docs EXCEPT ![tasks[k].document_id].status = "FAILED"]
    /\ IF tasks[k].retries < max_retries
       THEN /\ task_records' = [task_records EXCEPT
                                  ![k].status = "FAILURE",
                                  ![k].retry_count = @ + 1]
            /\ countdowns' = [countdowns EXCEPT
                                ![k] = Append(@, RetryCountdown(tasks[k].retries))]
            /\ tasks' = [tasks EXCEPT ![k].pc = "queued",
                                      ![k].retries = @ + 1,
                                      ![k].error = error]
       ELSE /\ task_records' = [task_records EXCEPT ![k].status = "FAILURE"]
            /\ tasks' = [tasks EXCEPT ![k].pc = "failed", ![k].error = error]
            /\ UNCHANGED countdowns

\* task_record.status = "SUCCESS"; db.commit(); return
TaskSucceeds(k) ==
    /\ task_records' = [task_records EXCEPT ![k].status = "SUCCESS"]
    /\ tasks' = [tasks EXCEPT ![k].pc = "succeeded"]
    /\ UNCHANGED countdowns

\* a worker takes the message: the TaskRecord is added and committed before
\* the try block; task_id is unique, so the INSERT of a second row for the
\* id is refused and the exception ends the execution; the message of a
\* revoked task is discarded by the worker that receives it
TaskStart(k) ==
    /\ tasks[k].pc = "queued"
    /\ IF tasks[k].revoked
       THEN /\ tasks' = [tasks EXCEPT ![k].pc = "revoked"]
            /\ UNCHANGED task_records
       ELSE IF k \in DOMAIN task_records
       THEN /\ tasks' = [tasks EXCEPT ![k].pc = "insert_refused"]
            /\ UNCHANGED task_records
       ELSE /\ task_records' = (k :> TaskRecord(tasks[k].document_id)) @@ task_records
            /\ tasks' = [tasks EXCEPT ![k].pc = "started"]
    /\ UNCHANGED <<countdowns, db_vars, upload_vars>>

\* the document is looked up and set to PROCESSING; when there is none the
\* handler itself fails on `document.status` and the record stays STARTED
TaskLoadDocument(k) ==
    /\ tasks[k].pc = "started"
    /\ IF tasks[k].document_id \in DOMAIN documents
       THEN /\ documents' = [documents EXCEPT
                               ![tasks[k].document_id].status = "PROCESSING"]
            /\ tasks' = [tasks EXCEPT ![k].pc = "loaded"]
       ELSE /\ tasks' = [tasks EXCEPT ![k].pc = "failed",
                                      ![k].error = "document_not_found"]
            /\ UNCHANGED documents
    /\ UNCHANGED <<task_records, countdowns, verification_records, templates,
                   template_data, upload_vars>>

\* storage_service.download_file returned True: the file is in the storage
TaskDownload(k) ==
    /\ tasks[k].pc = "loaded"
    /\ documents[tasks[k].document_id].storage_path \in storage
    /\ tasks' = [tasks EXCEPT ![k].pc = "downloaded"]
    /\ UNCHANGED <<task_records, countdowns, db_vars, upload_vars>>

\* storage_service.download_file returned False: RuntimeError
TaskDownloadFails(k) ==
    /\ tasks[k].pc = "loaded"
    /\ TaskFails(k, "download", documents)
    /\ UNCHANGED <<verification_records, templates, template_data, upload_vars>>

\* OCR succeeds and the document becomes OCR_COMPLETED; without template
\* the task succeeds
TaskOcr(k, confidence) ==
    /\ tasks[k].pc = "downloaded"
    /\ ocr_calls' = ocr_calls + 1
    /\ documents' = [documents EXCEPT
                        ![tasks[k].document_id].status = "OCR_COMPLETED",
                        ![tasks[k].document_id].ocr_confidence = confidence]
    /\ IF Truthy(tasks[k].template_id)
       THEN /\ tasks' = [tasks EXCEPT ![k].pc = "verify"]
            /\ UNCHANGED <<task_records, countdowns>>
       ELSE TaskSucceeds(k)
    /\ UNCHANGED <<verification_records, templates, template_data,
                   storage, upload, requests>>

\* the OCR call raises
TaskOcrFails(k) ==
    /\ tasks[k].pc = "downloaded"
    /\ ocr_calls' = ocr_calls + 1
    /\ TaskFails(k, "ocr", documents)
    /\ UNCHANGED <<verification_records, templates, template_data,
                   storage, upload, requests>>

\* processor._verify_document(document, template_id, db)
TaskVerify(k, llm_outcome, table_created, data_stored) ==
    /\ tasks[k].pc = "verify"
    /\ LET v == verify_document(tasks[k].document_id, tasks[k].template_id,
                                llm_outcome, table_created, data_stored)
       IN /\ verification_records' = v.records
          /\ template_data' = v.template_data
          /\ IF v.raised
             THEN TaskFails(k, "verify", v.documents)
             ELSE /\ documents' = v.documents
                  /\ TaskSucceeds(k)
    /\ UNCHANGED <<templates, upload_vars>>

\* task_acks_late with task_reject_on_worker_lost: the message of an
\* execution whose worker is lost goes back to the queue
WorkerLost(k) ==
    /\ tasks[k].pc \in {"started", "loaded", "downloaded", "verify"}
    /\ tasks' = [tasks EXCEPT ![k].pc = "queued", ![k].redelivered = TRUE]
    /\ UNCHANGED <<task_records, countdowns, db_vars, upload_vars>>

\* reprocess_document_async: the document is set to PROCESSING and a
\* process_document_async message is sent
ReprocessDocument(d, template_id) ==
    /\ d \in DOMAIN documents
    /\ Cardinality(DOMAIN tasks) < MaxTasks
    /\ documents' = [documents EXCEPT ![d].status = "PROCESSING"]
    /\ tasks' = (NewTaskId(1) :> TaskMessage(d, template_id, "high")) @@ tasks
    /\ countdowns' = (NewTaskId(1) :> <<>>) @@ countdowns
    /\ UNCHANGED <<task_records, verification_records, templates,
                   template_data, upload_vars>>

\* the query with retry_count <= 3 in place of retry_count < 3
FailedTasksToRetryOnceMore ==
    {k \in DOMAIN task_records : /\ task_records[k].status = "FAILURE"
                                 /\ task_records[k].retry_count <= 3
                                 /\ ~task_records[k].aged}

\* check_failed_tasks: the FAILURE records with retry_count < 3 that were
\* created in the last 24 hours (aged: created_at is older than that)
FailedTasksToRetry ==
    {k \in DOMAIN task_records : /\ task_records[k].status = "FAILURE"
                                 /\ task_records[k].retry_count < 3
                                 /\ ~task_records[k].aged}

\* check_failed_tasks: for each of them a new process_document_async message
\* with the document id alone (no template, default priority, a fresh task
\* id) and retry_count incremented on the old record; one commit at the
\* end. requeue_of remembers for which record a message was sent. limit
\* caps the number of messages of the model.
check_failed_tasks(limit) ==
    LET failed_tasks == FailedTasksToRetry
        n == Cardinality(failed_tasks)
        base == Cardinality(DOMAIN tasks)
        \* the rows in the order the query returns them
        row == CHOOSE f \in [1..n -> failed_tasks] :
                   \A a, b \in 1..n : f[a] = f[b] => a = b
        sent == {TaskIds[base + i] : i \in 1..n}
        position(j) == CHOOSE i \in 1..n : TaskIds[base + i] = j
        message(k) == [TaskMessage(task_records[k].document_id, NULL, "normal")
                          EXCEPT !.requeue_of = k]
    IN /\ base + n <= limit
       /\ tasks' = [j \in DOMAIN tasks \cup sent |->
                       IF j \in DOMAIN tasks THEN tasks[j]
                       ELSE message(row[position(j)])]
       /\ countdowns' = [j \in DOMAIN countdowns \cup sent |->
                            IF j \in DOMAIN countdowns THEN countdowns[j]
                            ELSE <<>>]
       /\ task_records' = [k \in DOMAIN task_records |->
                              IF k \in failed_tasks
                              THEN [task_records[k] EXCEPT !.retry_count = @ + 1]
                              ELSE task_records[k]]
       /\ UNCHANGED <<db_vars, upload_vars>>

(***************************************************************************)
(* infrastructure/tasks/document_tasks.py : cleanup_old_documents          *)
(***************************************************************************)
\* Document.status.in_([VERIFIED, FAILED, ARCHIVED])
ArchivableStatuses == {"VERIFIED", "FAILED", "ARCHIVED"}

\* the rows the query of the sweep returns, among the documents created
\* before the cutoff date
old_documents(aged) == {d \in aged : documents[d].status \in ArchivableStatuses}

\* cleanup_old_documents(days): the files of the old documents are deleted
\* and the rows set to ARCHIVED, in one commit
cleanup_old_documents(aged) ==
    /\ old_documents(aged) # {}
    /\ storage' = storage \ {documents[d].storage_path : d \in old_documents(aged)}
    /\ documents' = [d \in DOMAIN documents |->
                        IF d \in old_documents(aged)
                        THEN [documents[d] EXCEPT !.status = "ARCHIVED"]
                        ELSE documents[d]]
    /\ UNCHANGED <<verification_records, templates, template_data,
                   ocr_calls, upload, requests, task_vars, decision_vars, outer_vars>>

(***************************************************************************)
(* infrastructure/services/review_queue_service.py : submit_review_decision*)
(***************************************************************************)
\* the decisions the method knows, and one it does not
Decisions == {"approve", "reject", "request_reprocess"}
DecisionArguments == Decisions \cup {"escalate"}

\* the reviewer and the notes of the decisions, the corrected_data argument
DecisionReviewers == {"alice"}
DecisionNotes == {"checked"}
CorrectedData == {NULL, "corrections"}

\* a verification id that no row has
UnknownVerificationId == 99

NoDecision ==
    [verification_id |-> 0, decision |-> NULL, reviewer_id |-> NULL,
     notes |-> NULL, corrected_data |-> NULL, tasks_before |-> {},
     result |-> NULL]

\* verification.status of the three branches
DecisionRecordStatus(decision) ==
    CASE decision = "approve" -> "PASS"
      [] decision = "reject" -> "FAIL"
      [] decision = "request_reprocess" -> "PENDING"

\* verification.document.status of the three branches
DecisionDocumentStatus(decision) ==
    CASE decision = "approve" -> "VERIFIED"
      [] decision = "reject" -> "FAILED"
      [] decision = "request_reprocess" -> "PROCESSING"

\* the row after the branch and the stamping of the review
DecidedRecord(rec, decision, reviewer_id, notes, corrected_data) ==
    [rec EXCEPT !.status = DecisionRecordStatus(decision),
                !.reviewed_by = reviewer_id,
                !.manual_review_notes = notes,
                !.requires_manual_review = FALSE,
                !.extracted_data = IF Truthy(corrected_data)
                                   THEN corrected_data ELSE @]

\* the service without its rollback: what a call wrote before it raised stays
SubmitDecisionWithoutRollback(verification_id, decision, reviewer_id, notes, corrected_data) ==
    LET call == [verification_id |-> verification_id, decision |-> decision,
                 reviewer_id |-> reviewer_id, notes |-> notes,
                 corrected_data |-> corrected_data,
                 tasks_before |-> DOMAIN tasks, result |-> "raised"]
    IN IF verification_id \notin DOMAIN verification_records
       THEN /\ last_decision' = call
            /\ UNCHANGED db_vars
       ELSE LET rec == verification_records[verification_id]
            IN /\ verification_records' =
                    [verification_records EXCEPT ![verification_id] =
                        [rec EXCEPT !.reviewed_by = reviewer_id,
                                    !.requires_manual_review = FALSE]]
               /\ last_decision' = call
               /\ UNCHANGED <<documents, templates, template_data>>

\* submit_review_decision(verification_id, decision, reviewer_id, notes,
\* corrected_data): an unknown id and an unknown decision raise ValueError;
\* corrected data are merged with extracted_data.update, which a row whose
\* extracted_data is NULL does not have; every exception rolls back
submit_review_decision(verification_id, decision, reviewer_id, notes, corrected_data) ==
    LET call == [verification_id |-> verification_id, decision |-> decision,
                 reviewer_id |-> reviewer_id, notes |-> notes,
                 corrected_data |-> corrected_data,
                 tasks_before |-> DOMAIN tasks, result |-> "raised"]
        raises ==
            \/ verification_id \notin DOMAIN verification_records
            \/ decision \notin Decisions
            \/ /\ Truthy(corrected_data)
               /\ verification_records[verification_id].extracted_data = NULL
    IN IF raises
       THEN /\ last_decision' = call
            /\ UNCHANGED db_vars
       ELSE LET rec == verification_records[verification_id]
            IN /\ verification_records' =
                    [verification_records EXCEPT ![verification_id] =
                        DecidedRecord(rec, decision, reviewer_id, notes,
                                      corrected_data)]
               /\ documents' = [documents EXCEPT ![rec.document_id].status =
                                    DecisionDocumentStatus(decision)]
               /\ last_decision' = [call EXCEPT !.result = "committed"]
               /\ UNCHANGED <<templates, template_data>>

(***************************************************************************)
(* Initial values of the state of each part                                *)
(***************************************************************************)
\* SubmittedDocument(template_id=..., file_url=...)
EntityInit ==
    /\ status = "pending"
    /\ processing_history = <<>>
    /\ validation_result = ValidationResultOf(FALSE, NoFieldValidation)
    /\ ocr_blocks = 0
    /\ last_call = "__init__"

MatcherInit ==
    /\ template = [field_definitions |-> <<>>, confidence_threshold |-> 90]
    /\ llm_review = FALSE
    /\ field_validation = NoFieldValidation
    /\ matcher_pc = "ready"

ReviewInit ==
    /\ assign_pc = [r \in Reviewers |-> "idle"]
    /\ assign_rows = [r \in Reviewers |-> <<>>]
    /\ assigned_items = [r \in Reviewers |-> <<>>]

\* an empty database
DbInit ==
    /\ verification_records = <<>>
    /\ documents = <<>>
    /\ templates = <<>>
    /\ template_data = {}

DecisionInit == last_decision = NoDecision

\* no get_pending_reviews call was made yet
NoListing ==
    [limit |-> 0, offset |-> 0, priority_filter |-> NULL, items |-> <<>>,
     total_count |-> 0]

ListingInit == pending_reviews = NoListing

\* webhooks_db = {} and deliveries_db = {}; an empty webhook_deliveries table
WebhookInit ==
    /\ webhooks_db = <<>>
    /\ deliveries_db = <<>>
    /\ webhook_deliveries = <<>>

PoolInit == reprocess_tasks = <<>>

OuterInit == ListingInit /\ WebhookInit /\ PoolInit

TaskInit ==
    /\ tasks = <<>>
    /\ task_records = <<>>
    /\ countdowns = <<>>

UploadInit ==
    /\ storage = {}
    /\ ocr_calls = 0
    /\ upload = [c \in Clients |-> IdleCall]
    /\ requests = 0

(***************************************************************************)
(* SpecMatcher: the field matcher applied to every bounded template        *)
(***************************************************************************)
InitMatcher ==
    /\ EntityInit
    /\ ReviewInit
    /\ DbInit
    /\ UploadInit
    /\ TaskInit
    /\ DecisionInit /\ OuterInit
    /\ template \in TemplatesUpTo(MaxFields)
    /\ llm_review = FALSE
    /\ field_validation = NoFieldValidation
    /\ matcher_pc = "ready"

RunMatcher ==
    /\ matcher_pc = "ready"
    /\ field_validation' = validate_template_fields(template)
    /\ matcher_pc' = "done"
    /\ UNCHANGED <<template, llm_review>>
    /\ UNCHANGED <<entity_vars, review_vars, db_vars, upload_vars, task_vars,
                   decision_vars, outer_vars>>

NextMatcher == RunMatcher

vars == <<entity_vars, matcher_vars, review_vars, db_vars, upload_vars, task_vars,
          decision_vars, outer_vars>>

SpecMatcher == InitMatcher /\ [][NextMatcher]_vars

(***************************************************************************)
(* SpecEntity: any sequence of calls on one SubmittedDocument              *)
(***************************************************************************)
InitEntity ==
    EntityInit /\ MatcherInit /\ ReviewInit /\ DbInit /\ UploadInit /\ TaskInit
        /\ DecisionInit /\ OuterInit

\* what no method of SubmittedDocument touches
EntityFrame ==
    UNCHANGED <<review_vars, db_vars, upload_vars, task_vars, decision_vars, outer_vars>>

AddProcessingEvent ==
    /\ \E metadata \in CallerMetadata : add_processing_event("note", metadata)
    /\ UNCHANGED matcher_vars
    /\ EntityFrame

UpdateStatus ==
    /\ \E new_status \in EntityStatus, metadata \in CallerMetadata :
          update_status(new_status, metadata)
    /\ UNCHANGED matcher_vars
    /\ EntityFrame

SetOcrResult ==
    /\ \E blocks \in 0..MaxBlocks : set_ocr_result(blocks)
    /\ UNCHANGED matcher_vars
    /\ EntityFrame

\* a verification attempt: the matcher and the LLM review produce the result
\* that set_validation_result classifies
SetValidationResult ==
    \E t \in TemplatesUpTo(1), llm_is_valid \in BOOLEAN :
        /\ template' = t
        /\ llm_review' = llm_is_valid
        /\ field_validation' = validate_template_fields(t)
        /\ matcher_pc' = "done"
        /\ set_validation_result(
              ValidationResultOf(llm_is_valid, validate_template_fields(t)))
        /\ EntityFrame

NextEntity ==
    \/ AddProcessingEvent
    \/ UpdateStatus
    \/ SetOcrResult
    \/ SetValidationResult

SpecEntity == InitEntity /\ [][NextEntity]_vars

C10_HistoryAppendOnly ==
    [][/\ Len(processing_history') >= Len(processing_history)
       /\ SubSeq(processing_history', 1, Len(processing_history))
             = processing_history]_vars

\* a history of two entries written by two different methods
C10_Witness ==
    /\ Len(processing_history) >= 2
    /\ processing_history[1].event = "ocr_completed"
    /\ processing_history[2].event = "status_changed"
    /\ last_call = "set_validation_result"

(***************************************************************************)
(* Properties of the field matcher (SpecMatcher)                           *)
(***************************************************************************)
\* the definition in force for an expected field name
DefinitionOf(t, name) ==
    LET fields == expected_fields(t.field_definitions)
    IN fields[CHOOSE i \in DOMAIN fields : fields[i].name = name]

\* the threshold the contract gives a field: its own when it has one, else
\* the template's
EffectiveThreshold(t, name) ==
    IF "confidence_threshold" \in DOMAIN DefinitionOf(t, name)
    THEN DefinitionOf(t, name).confidence_threshold
    ELSE t.confidence_threshold

ListedIn(list, name) == \E i \in DOMAIN list : list[i].field_name = name

ReviewRows ==
    { [VerificationRecord("D1", "T1") EXCEPT
          !.status = "MANUAL_REVIEW",
          !.requires_manual_review = m,
          !.overall_confidence = c] :
        m \in BOOLEAN, c \in Confidences }

InitReview ==
    /\ EntityInit
    /\ MatcherInit
    /\ ReviewInit
    /\ UploadInit
    /\ TaskInit
    /\ DecisionInit /\ OuterInit
    /\ \E n \in 1..MaxRecords : verification_records \in [1..n -> ReviewRows]
    /\ documents = <<>>
    /\ templates = <<>>
    /\ template_data = {}

ReviewFrame ==
    UNCHANGED <<entity_vars, matcher_vars, upload_vars, task_vars, decision_vars, outer_vars>>

BatchAssignSelect ==
    /\ \E reviewer_id \in Reviewers, count \in 1..MaxCount,
          priority_filter \in PriorityFilters :
          AssignSelect(reviewer_id, count, priority_filter)
    /\ ReviewFrame

BatchAssignCommit ==
    /\ \E reviewer_id \in Reviewers : AssignCommit(reviewer_id)
    /\ ReviewFrame

NextReview ==
    \/ BatchAssignSelect
    \/ BatchAssignCommit

SpecReview == InitReview /\ [][NextReview]_vars

InitUpload ==
    /\ EntityInit
    /\ MatcherInit
    /\ ReviewInit
    /\ UploadInit
    /\ TaskInit
    /\ DecisionInit /\ OuterInit
    /\ verification_records = <<>>
    /\ documents = <<>>
    /\ templates \in [TemplateIds -> StoredTemplates]
    /\ template_data = {}

UploadFrame ==
    UNCHANGED <<entity_vars, matcher_vars, review_vars, task_vars, decision_vars, outer_vars>>

ProcessUploadedFile ==
    /\ \E c \in Clients, file \in Files, suffix \in Suffixes,
          template_id \in TemplateArguments :
          UploadBegin(c, file, suffix, template_id)
    /\ UploadFrame

StorageUpload ==
    /\ \E c \in Clients : UploadStore(c)
    /\ UploadFrame

StorageUploadFails ==
    /\ \E c \in Clients : UploadStoreFails(c)
    /\ UploadFrame

OcrExtract ==
    /\ \E c \in Clients, confidence \in OcrConfidences : UploadOcr(c, confidence)
    /\ UploadFrame

OcrExtractFails ==
    /\ \E c \in Clients : UploadOcrFails(c)
    /\ UploadFrame

VerifyDocument ==
    /\ \E c \in Clients, llm_outcome \in LlmOutcomes,
          table_created \in BOOLEAN, data_stored \in BOOLEAN :
          UploadVerify(c, llm_outcome, table_created, data_stored)
    /\ UploadFrame

ProcessAsyncEndpoint ==
    /\ \E c \in Clients, file \in Files : ProcessAsyncRequest(c, file)
    /\ UploadFrame

NextUpload ==
    \/ ProcessUploadedFile
    \/ StorageUpload
    \/ StorageUploadFails
    \/ OcrExtract
    \/ OcrExtractFails
    \/ VerifyDocument
    \/ ProcessAsyncEndpoint

SpecUpload == InitUpload /\ [][NextUpload]_vars

\* C2: a process_uploaded_file call made with bytes whose digest some
\* document already carries returns at once with status duplicate and the id
\* of a document created earlier from these bytes, and it leaves the
\* documents, the storage, the OCR engine and the verification records as
\* they were.
C2_DuplicateSubmitHasNoSideEffect ==
    [][\A c \in Clients :
          LET digest == upload'[c].file_hash
              earlier == {d \in DOMAIN documents : documents[d].file_hash = digest}
          IN (/\ upload[c].pc \in {"idle", "returned"}
              /\ upload'[c] # upload[c]
              /\ digest # NULL
              /\ earlier # {})
             => /\ upload'[c].pc = "returned"
                /\ upload'[c].result = "duplicate"
                /\ upload'[c].result_document_id \in earlier
                /\ documents' = documents
                /\ storage' = storage
                /\ ocr_calls' = ocr_calls
                /\ verification_records' = verification_records]_vars

\* a call returned duplicate with the id of the document that carries the
\* digest of the submitted bytes, after one storage write and OCR call
C2_Witness ==
    \E c \in Clients :
        /\ upload[c].result = "duplicate"
        /\ upload[c].result_document_id \in DOMAIN documents
        /\ documents[upload[c].result_document_id].file_hash = upload[c].file_hash
        /\ Cardinality(DOMAIN documents) = 1
        /\ Cardinality(storage) = 1
        /\ ocr_calls = 1

\* C3: no two Document rows carry the same file_hash.
C3_UniqueFileHash ==
    \A d1, d2 \in DOMAIN documents :
        d1 # d2 => documents[d1].file_hash # documents[d2].file_hash

\* C5: a verification record written for a template with a missing or a
\* low-confidence field requires manual review and has the manual-review
\* status once _verify_document is over.
C5_AmbiguityRoutedToReview ==
    \A r \in DOMAIN verification_records :
        LET fv == validate_template_fields(templates[verification_records[r].template_id])
        IN (fv.missing_fields # <<>> \/ fv.low_confidence_fields # <<>>)
           => /\ verification_records[r].requires_manual_review
              /\ verification_records[r].status = "MANUAL_REVIEW"

(***************************************************************************)
(* SpecTask: background processing of stored documents                     *)
(***************************************************************************)
\* one document as process_uploaded_file leaves it, its file in the storage
InitTask ==
    /\ EntityInit
    /\ MatcherInit
    /\ ReviewInit
    /\ TaskInit
    /\ DecisionInit /\ OuterInit
    /\ storage = {StoragePath("D1")}
    /\ ocr_calls = 1
    /\ upload = [c \in Clients |-> IdleCall]
    /\ requests = 1
    /\ verification_records = <<>>
    /\ \E doc_status \in {"OCR_COMPLETED", "FAILED"} :
          documents = ("D1" :> Document("digest_a", StoragePath("D1"), doc_status))
    /\ templates \in [TemplateIds -> StoredTemplates]
    /\ template_data = {}

TaskFrame == UNCHANGED <<entity_vars, matcher_vars, review_vars, decision_vars, outer_vars>>

Reprocess ==
    /\ \E d \in DOMAIN documents, template_id \in TemplateArguments :
          ReprocessDocument(d, template_id)
    /\ TaskFrame

ExecutionStart ==
    /\ \E k \in DOMAIN tasks : TaskStart(k)
    /\ TaskFrame

LoadDocument ==
    /\ \E k \in DOMAIN tasks : TaskLoadDocument(k)
    /\ TaskFrame

Download ==
    /\ \E k \in DOMAIN tasks : TaskDownload(k)
    /\ TaskFrame

DownloadFails ==
    /\ \E k \in DOMAIN tasks : TaskDownloadFails(k)
    /\ TaskFrame

TaskOcrExtract ==
    /\ \E k \in DOMAIN tasks, confidence \in OcrConfidences : TaskOcr(k, confidence)
    /\ TaskFrame

TaskOcrExtractFails ==
    /\ \E k \in DOMAIN tasks : TaskOcrFails(k)
    /\ TaskFrame

TaskVerifyDocument ==
    /\ \E k \in DOMAIN tasks, llm_outcome \in LlmOutcomes,
          table_created \in BOOLEAN, data_stored \in BOOLEAN :
          TaskVerify(k, llm_outcome, table_created, data_stored)
    /\ TaskFrame

Redelivery ==
    /\ \E k \in DOMAIN tasks : WorkerLost(k)
    /\ TaskFrame

CheckFailedTasks ==
    /\ check_failed_tasks(MaxTasks)
    /\ TaskFrame

ArchiveSweep ==
    /\ \E aged \in SUBSET DOMAIN documents : cleanup_old_documents(aged)
    /\ TaskFrame

NextTask ==
    \/ Reprocess
    \/ ExecutionStart
    \/ LoadDocument
    \/ Download
    \/ DownloadFails
    \/ TaskOcrExtract
    \/ TaskOcrExtractFails
    \/ TaskVerifyDocument
    \/ Redelivery
    \/ CheckFailedTasks
    \/ ArchiveSweep

SpecTask == InitTask /\ [][NextTask]_vars

\* a task is abandoned: no execution of it is running or queued any more
Abandoned(k) == tasks[k].pc \in {"failed", "insert_refused"}

\* C7: a task whose OCR call raised is abandoned only after retries
\* scheduled with the countdowns 60, 120 and 240, and then its document is
\* FAILED and its TaskRecord has retry_count 3.
C7_RetryBackoffThenAbandon ==
    \A k \in DOMAIN tasks :
        (tasks[k].error = "ocr" /\ Abandoned(k))
            => /\ countdowns[k] = <<60, 120, 240>>
               /\ task_records[k].retry_count = 3
               /\ documents[tasks[k].document_id].status = "FAILED"

\* C8: while an automatic retry of a task is scheduled, its TaskRecord is
\* not FAILURE and its document is not FAILED.
C8_RetryOrFinalizeNotBoth ==
    \A k \in DOMAIN tasks :
        (tasks[k].pc = "queued" /\ tasks[k].retries > 0)
            => /\ task_records[k].status # "FAILURE"
               /\ documents[tasks[k].document_id].status # "FAILED"

\* C9: the table holds one record per task id and loses none, and every
\* execution of a task that has a record already (a retry, a redelivery)
\* goes on with that record marked STARTED.
C9_OneRecordUpdatedByEveryExecution ==
    [][/\ DOMAIN task_records \subseteq DOMAIN task_records'
       /\ \A k \in DOMAIN tasks :
             (/\ tasks[k].pc = "queued"
              /\ tasks'[k].pc # "queued"
              /\ k \in DOMAIN task_records)
                => /\ tasks'[k].pc = "started"
                   /\ task_records'[k].status = "STARTED"]_vars

\* C11: every step that changes the status of a document appends exactly
\* one status_changed event to the document's processing history, with the
\* status before the change as its from and the status after it as its to.
C11_StatusChangeAppendsEvent ==
    [][\A d \in DOMAIN documents :
          documents'[d].status # documents[d].status
            => /\ Len(processing_history') = Len(processing_history) + 1
               /\ LET e == processing_history'[Len(processing_history')]
                  IN /\ e.event = "status_changed"
                     /\ e.metadata["from"] = documents[d].status
                     /\ e.metadata["to"] = documents'[d].status]_vars

\* the steps that carry out an explicit request to process a document again
ExplicitReprocess == Reprocess

\* the status changes of the document lifecycle
LifecycleEdges ==
    {<<"UPLOADED", "PROCESSING">>, <<"PROCESSING", "OCR_COMPLETED">>,
     <<"OCR_COMPLETED", "VERIFIED">>, <<"OCR_COMPLETED", "FAILED">>,
     <<"VERIFIED", "ARCHIVED">>, <<"FAILED", "ARCHIVED">>}
    \cup {<<from, "FAILED">> : from \in DocumentStatus \ {"ARCHIVED"}}

\* C12: the status of a document changes only along the lifecycle edges
\* (an explicit reprocess may also take a document that is not archived to
\* PROCESSING); an archived document never changes status again.
C12_OnlyLifecycleEdges ==
    [][\A d \in DOMAIN documents :
          documents'[d].status # documents[d].status
            => \/ <<documents[d].status, documents'[d].status>> \in LifecycleEdges
               \/ /\ ExplicitReprocess
                  /\ documents[d].status # "ARCHIVED"
                  /\ documents'[d].status = "PROCESSING"]_vars

(***************************************************************************)
(* SpecDecision: reviewer decisions on the records the tasks leave         *)
(***************************************************************************)
DecisionFrame ==
    UNCHANGED <<entity_vars, matcher_vars, review_vars, upload_vars, task_vars,
                outer_vars>>

ReviewDecision ==
    /\ \E verification_id \in DOMAIN verification_records \cup {UnknownVerificationId},
          decision \in DecisionArguments, reviewer_id \in DecisionReviewers,
          notes \in DecisionNotes, corrected_data \in CorrectedData :
          submit_review_decision(verification_id, decision, reviewer_id, notes,
                                 corrected_data)
    /\ DecisionFrame

NextDecision ==
    \/ Reprocess
    \/ ExecutionStart
    \/ LoadDocument
    \/ Download
    \/ TaskOcrExtract
    \/ TaskOcrExtractFails
    \/ TaskVerifyDocument
    \/ CheckFailedTasks
    \/ ReviewDecision

SpecDecision == InitTask /\ [][NextDecision]_vars

\* the positions of a task that is waiting for a worker or being executed
ActivePcs == {"queued", "started", "loaded", "downloaded", "verify"}

\* a reprocess of document d was requested after the last decision: one of
\* the messages sent since is the high-priority message of a reprocess
ReprocessedSinceDecision(d) ==
    \E k \in DOMAIN tasks' \ last_decision.tasks_before :
        tasks'[k].document_id = d /\ tasks'[k].priority = "high"

\* the step is taken by a task that nobody asked for: a message requeued by
\* check_failed_tasks or an automatic retry
AutomatedTaskStep ==
    \E k \in DOMAIN tasks :
        /\ tasks'[k] # tasks[k]
        /\ tasks[k].priority = "normal" \/ tasks[k].retries > 0

\* C13: once approve or reject is recorded on a record, no step of an
\* automated task changes the status of the record or of its document, unless
\* a reprocess of the document was requested after the decision.
C13_DecisionNotOverwritten ==
    [][\A r \in DOMAIN verification_records :
          LET rec == verification_records[r]
          IN (/\ last_decision.verification_id = r
              /\ last_decision.result = "committed"
              /\ last_decision.decision \in {"approve", "reject"}
              /\ AutomatedTaskStep
              /\ ~ReprocessedSinceDecision(rec.document_id))
             => /\ verification_records'[r].status = rec.status
                /\ documents'[rec.document_id].status
                      = documents[rec.document_id].status]_vars

\* C14: a call of submit_review_decision with approve leaves the record PASS
\* and its document VERIFIED, one with reject leaves them FAIL and FAILED;
\* both leave the reviewer and the notes on the record and
\* requires_manual_review false.
C14_ApproveRejectWrites ==
    [][(/\ last_decision' # last_decision
        /\ last_decision'.decision \in {"approve", "reject"}
        /\ last_decision'.verification_id \in DOMAIN verification_records)
       => LET call == last_decision'
              rec == verification_records'[call.verification_id]
          IN /\ rec.status = IF call.decision = "approve" THEN "PASS" ELSE "FAIL"
             /\ documents'[rec.document_id].status
                   = IF call.decision = "approve" THEN "VERIFIED" ELSE "FAILED"
             /\ rec.reviewed_by = call.reviewer_id
             /\ rec.manual_review_notes = call.notes
             /\ ~rec.requires_manual_review]_vars

\* C15: a committed request_reprocess decision leaves the record PENDING
\* with requires_manual_review false and a task for the document waiting or
\* running.
C15_RequestReprocessQueuesTask ==
    [][(/\ last_decision' # last_decision
        /\ last_decision'.decision = "request_reprocess"
        /\ last_decision'.result = "committed")
       => LET rec == verification_records'[last_decision'.verification_id]
          IN /\ rec.status = "PENDING"
             /\ ~rec.requires_manual_review
             /\ \E k \in DOMAIN tasks' :
                   /\ tasks'[k].document_id = rec.document_id
                   /\ tasks'[k].pc \in ActivePcs]_vars

C17_LlmFailureDefaultsToValid ==
    \A c \in Clients :
        upload[c].llm_outcome \in {"raises", "api_error"}
            => /\ upload[c].llm_validation_result
                    = [is_valid |-> TRUE, confidence |-> <<50>>]
               /\ upload[c].is_valid
                    = validate_template_fields(templates[upload[c].template_id]).is_valid

(***************************************************************************)
(* SpecProcessing: one upload and one background task, also concurrently   *)
(***************************************************************************)
\* an empty database and clients with one upload left to make
InitProcessing ==
    /\ EntityInit
    /\ MatcherInit
    /\ ReviewInit
    /\ TaskInit
    /\ DecisionInit /\ OuterInit
    /\ storage = {}
    /\ ocr_calls = 0
    /\ upload = [c \in Clients |-> IdleCall]
    /\ requests = MaxRequests - 1
    /\ verification_records = <<>>
    /\ documents = <<>>
    /\ templates \in [TemplateIds -> StoredTemplates]
    /\ template_data = {}

\* reprocess_document_async, asked for while no task was submitted before
ReprocessOnce ==
    /\ DOMAIN tasks = {}
    /\ Reprocess

NextProcessing ==
    \/ ProcessUploadedFile
    \/ StorageUpload
    \/ StorageUploadFails
    \/ OcrExtract
    \/ OcrExtractFails
    \/ VerifyDocument
    \/ ReprocessOnce
    \/ ExecutionStart
    \/ LoadDocument
    \/ Download
    \/ DownloadFails
    \/ TaskOcrExtract
    \/ TaskOcrExtractFails
    \/ TaskVerifyDocument

SpecProcessing == InitProcessing /\ [][NextProcessing]_vars

\* C18: a step in which the OCR call of an upload or of a task raises ends
\* the attempt (the upload returns an error, the task is re-queued or
\* abandoned), leaves the document FAILED whatever its status was, and
\* writes no verification record and no sink row.
C18_OcrFailureFailsAttempt ==
    [][/\ OcrExtractFails =>
            \E c \in Clients :
                /\ upload[c].pc = "ocr"
                /\ upload'[c].pc = "returned"
                /\ upload'[c].result = "error"
                /\ documents'[upload[c].document_id].status = "FAILED"
                /\ verification_records' = verification_records
                /\ template_data' = template_data
       /\ TaskOcrExtractFails =>
            \E k \in DOMAIN tasks :
                /\ tasks[k].pc = "downloaded"
                /\ tasks'[k].pc \in {"queued", "failed"}
                /\ tasks'[k].error = "ocr"
                /\ documents'[tasks[k].document_id].status = "FAILED"
                /\ verification_records' = verification_records
                /\ template_data' = template_data]_vars

\* an upload without template and a task both ended by a failed OCR call
C18_Witness ==
    /\ \E c \in Clients :
          /\ upload[c].pc = "returned"
          /\ upload[c].result = "error"
          /\ upload[c].template_id = NULL
          /\ upload[c].document_id \in DOMAIN documents
    /\ \E k \in DOMAIN tasks : tasks[k].error = "ocr"

(***************************************************************************)
(* task_manager.py : cancel_task                                           *)
(***************************************************************************)
\* result.revoke(terminate=True) broadcasts the revoke to the workers, then
\* the TaskRecord of the id, when there is one, is set to REVOKED
CancelTask(task_id) ==
    /\ tasks' = [k \in DOMAIN tasks |->
                    IF k = task_id THEN [tasks[k] EXCEPT !.revoked = TRUE]
                    ELSE tasks[k]]
    /\ task_records' = [k \in DOMAIN task_records |->
                           IF k = task_id
                           THEN [task_records[k] EXCEPT !.status = "REVOKED"]
                           ELSE task_records[k]]
    /\ UNCHANGED <<countdowns, db_vars, upload_vars>>

\* the positions of a task inside process_document_async
RunningPcs == {"started", "loaded", "downloaded", "verify"}

\* the worker acts on the revoke: the process executing the task is killed
\* where it stands, and neither the except branch nor a retry runs
WorkerTerminated(k) ==
    /\ tasks[k].revoked
    /\ tasks[k].pc \in RunningPcs
    /\ tasks' = [tasks EXCEPT ![k].pc = "revoked"]
    /\ UNCHANGED <<task_records, countdowns, db_vars, upload_vars>>

(***************************************************************************)
(* SpecCancel: background tasks that can be cancelled while they run       *)
(***************************************************************************)
Cancel ==
    /\ \E i \in DOMAIN TaskIds : CancelTask(TaskIds[i])
    /\ TaskFrame

Terminated ==
    /\ \E k \in DOMAIN tasks : WorkerTerminated(k)
    /\ TaskFrame

NextCancel ==
    \/ Reprocess
    \/ ExecutionStart
    \/ LoadDocument
    \/ Download
    \/ DownloadFails
    \/ TaskOcrExtract
    \/ TaskOcrExtractFails
    \/ TaskVerifyDocument
    \/ Cancel
    \/ Terminated

SpecCancel == InitTask /\ [][NextCancel]_vars

\* C19: a TaskRecord that is REVOKED is REVOKED after every step.
C19_RevokedStaysRevoked ==
    [][\A k \in DOMAIN task_records :
          task_records[k].status = "REVOKED"
              => task_records'[k].status = "REVOKED"]_vars

(***************************************************************************)
(* SpecTaskFair: the background tasks with workers that keep working       *)
(***************************************************************************)
\* the next step of the worker that holds or receives the message of task k
WorkerStep(k) ==
    /\ k \in DOMAIN tasks
    /\ \/ TaskStart(k)
       \/ TaskLoadDocument(k)
       \/ TaskDownload(k)
       \/ TaskDownloadFails(k)
       \/ \E confidence \in OcrConfidences : TaskOcr(k, confidence)
       \/ TaskOcrFails(k)
       \/ \E llm_outcome \in LlmOutcomes, table_created \in BOOLEAN,
             data_stored \in BOOLEAN :
             TaskVerify(k, llm_outcome, table_created, data_stored)
    /\ TaskFrame

\* a message in a queue is taken by a worker, and a worker that is not lost
\* goes on with the task it executes
SpecTaskFair ==
    /\ InitTask
    /\ [][NextTask]_vars
    /\ \A i \in DOMAIN TaskIds : WF_vars(WorkerStep(TaskIds[i]))

\* C20: a task whose worker was lost while executing it is executed again
\* to an outcome: its TaskRecord becomes SUCCESS or FAILURE and its document
\* is no longer PROCESSING.
C20_RedeliveredRunsToOutcome ==
    \A i \in DOMAIN TaskIds :
        (TaskIds[i] \in DOMAIN tasks /\ tasks[TaskIds[i]].redelivered)
            ~> /\ TaskIds[i] \in DOMAIN task_records
               /\ task_records[TaskIds[i]].status \in {"SUCCESS", "FAILURE"}
               /\ documents[tasks[TaskIds[i]].document_id].status # "PROCESSING"

(***************************************************************************)
(* SpecSweep: the periodic check_failed_tasks over tasks that fail         *)
(***************************************************************************)
\* 24 hours pass: the created_at of every TaskRecord there is leaves the
\* window of the query
RecordsAge ==
    /\ \E k \in DOMAIN task_records : ~task_records[k].aged
    /\ task_records' = [k \in DOMAIN task_records |->
                           [task_records[k] EXCEPT !.aged = TRUE]]
    /\ UNCHANGED <<tasks, countdowns, db_vars, upload_vars>>

DayPasses ==
    /\ RecordsAge
    /\ TaskFrame

SweepFailedTasks ==
    /\ check_failed_tasks(MaxSweepTasks)
    /\ TaskFrame

NextSweep ==
    \/ ReprocessOnce
    \/ ExecutionStart
    \/ LoadDocument
    \/ Download
    \/ DownloadFails
    \/ TaskOcrExtract
    \/ TaskOcrExtractFails
    \/ TaskVerifyDocument
    \/ SweepFailedTasks
    \/ DayPasses

\* one stored document whose processing ended, and a template without
\* field definitions
InitSweep ==
    /\ EntityInit
    /\ MatcherInit
    /\ ReviewInit
    /\ TaskInit
    /\ DecisionInit /\ OuterInit
    /\ storage = {StoragePath("D1")}
    /\ ocr_calls = 1
    /\ upload = [c \in Clients |-> IdleCall]
    /\ requests = 1
    /\ verification_records = <<>>
    /\ documents = ("D1" :> Document("digest_a", StoragePath("D1"), "OCR_COMPLETED"))
    /\ templates = [t \in TemplateIds |->
                       [field_definitions |-> <<>>, confidence_threshold |-> 90]]
    /\ template_data = {}

SpecSweep == InitSweep /\ [][NextSweep]_vars

\* the messages check_failed_tasks sent for the TaskRecord k
RequeuesOf(k) == {j \in DOMAIN tasks : tasks[j].requeue_of = k}

\* C21: a sweep sends one new message for each TaskRecord that is FAILURE,
\* has retry_count < 3 and is younger than 24 hours, and for no other; it
\* increments retry_count on exactly these records; and after every step no
\* TaskRecord has been requeued more than 3 times.
C21_SweepRequeuesEligibleAtMostThrice ==
    [][/\ SweepFailedTasks =>
            LET eligible == {k \in DOMAIN task_records :
                                /\ task_records[k].status = "FAILURE"
                                /\ task_records[k].retry_count < 3
                                /\ ~task_records[k].aged}
                sent == DOMAIN tasks' \ DOMAIN tasks
            IN /\ \A k \in eligible :
                     Cardinality({j \in sent : tasks'[j].requeue_of = k}) = 1
               /\ \A j \in sent : tasks'[j].requeue_of \in eligible
               /\ \A k \in DOMAIN task_records :
                     task_records'[k].retry_count =
                         task_records[k].retry_count
                             + (IF k \in eligible THEN 1 ELSE 0)
       /\ \A k \in DOMAIN task_records' : Cardinality(RequeuesOf(k)') <= 3]_vars

\* a failed record the sweeps requeued until its retry_count reached 3,
\* still FAILURE and younger than 24 hours
C21_Witness ==
    \E k \in DOMAIN task_records :
        /\ task_records[k].status = "FAILURE"
        /\ task_records[k].retry_count = 3
        /\ ~task_records[k].aged
        /\ Cardinality(RequeuesOf(k)) = 2
        /\ \E j \in DOMAIN tasks :
              tasks[j].requeue_of \notin {NULL, k}

(***************************************************************************)
(* SpecValidation: uploads that include the empty file                     *)
(***************************************************************************)
\* an empty database and clients with two uploads left to make
InitValidation ==
    /\ EntityInit
    /\ MatcherInit
    /\ ReviewInit
    /\ TaskInit
    /\ DecisionInit /\ OuterInit
    /\ storage = {}
    /\ ocr_calls = 0
    /\ upload = [c \in Clients |-> IdleCall]
    /\ requests = MaxRequests - 2
    /\ verification_records = <<>>
    /\ documents = <<>>
    /\ templates \in [TemplateIds -> StoredTemplates]
    /\ template_data = {}

ProcessEmptyFile ==
    /\ \E c \in Clients, suffix \in Suffixes, template_id \in TemplateArguments :
          UploadBegin(c, EmptyFile, suffix, template_id)
    /\ UploadFrame

NextValidation ==
    \/ ProcessUploadedFile
    \/ ProcessEmptyFile
    \/ StorageUpload
    \/ StorageUploadFails
    \/ OcrExtract
    \/ OcrExtractFails
    \/ VerifyDocument

SpecValidation == InitValidation /\ [][NextValidation]_vars

\* C22: a call of process_uploaded_file with a file that is empty, larger
\* than the maximum or of an extension outside the allow-list returns an
\* error without a digest having been computed, and changes no Document
\* row, nothing in storage and not the number of OCR calls.
C22_InvalidUploadRejected ==
    [][\A c \in Clients, file \in Files \cup {EmptyFile}, suffix \in Suffixes,
          template_id \in TemplateArguments :
          (/\ \/ file.size = 0
              \/ file.size > MAX_FILE_SIZE_MB * 1024 * 1024
              \/ FileExtension(suffix) \notin SUPPORTED_FILE_TYPES
           /\ UploadBegin(c, file, suffix, template_id))
              => /\ upload'[c].pc = "returned"
                 /\ upload'[c].result = "error"
                 /\ upload'[c].file_hash = NULL
                 /\ UNCHANGED <<documents, storage, ocr_calls>>]_vars

(***************************************************************************)
(* SpecBoundary: decisions arriving at the review service while one task   *)
(* writes the records they are about                                       *)
(***************************************************************************)
NextBoundary ==
    \/ ReprocessOnce
    \/ ExecutionStart
    \/ LoadDocument
    \/ Download
    \/ TaskOcrExtract
    \/ TaskOcrExtractFails
    \/ TaskVerifyDocument
    \/ ReviewDecision

SpecBoundary == InitTask /\ [][NextBoundary]_vars

\* C23: a call of submit_review_decision with a decision other than approve,
\* reject and request_reprocess, or with an id no record has, raises and
\* leaves every VerificationRecord and every Document as it was.
C23_InvalidDecisionChangesNothing ==
    [][(/\ last_decision' # last_decision
        /\ \/ last_decision'.decision \notin {"approve", "reject", "request_reprocess"}
           \/ last_decision'.verification_id \notin DOMAIN verification_records)
          => /\ last_decision'.result = "raised"
             /\ verification_records' = verification_records
             /\ documents' = documents]_vars

\* records exist and the last call, made with an unknown decision or for an
\* id without record, raised
C23_Witness ==
    /\ verification_records # <<>>
    /\ last_decision.result = "raised"
    /\ \/ last_decision.decision = "escalate"
       \/ last_decision.verification_id = UnknownVerificationId

(***************************************************************************)
(* review_queue_service.py : get_pending_reviews                           *)
(***************************************************************************)
\* _calculate_priority: verification.overall_confidence or 0.0 against 0.3
\* and 0.7 (confidences are kept in hundredths)
calculate_priority(row) ==
    LET confidence == IF row.overall_confidence = NoNumber THEN 0
                      ELSE row.overall_confidence[1]
    IN IF confidence < 30 THEN "high"
       ELSE IF confidence < 70 THEN "medium"
       ELSE "low"

\* the WHERE clause of get_pending_reviews over VerificationRecord joined
\* with Document; "medium" adds no condition
PendingQueryMatches(row, priority_filter) ==
    /\ row.document_id \in DOMAIN documents
    /\ row.requires_manual_review = TRUE
    /\ row.status = "MANUAL_REVIEW"
    /\ (priority_filter = "high" =>
            \/ SqlLess(row.overall_confidence, 50)
            \/ documents[row.document_id].status = "FAILED")
    /\ (priority_filter = "low" => SqlAtLeast(row.overall_confidence, 70))

\* query.offset(offset).limit(limit).all()
Page(ids, offset, limit) ==
    SubSeq(ids, offset + 1,
           IF Len(ids) < offset + limit THEN Len(ids) ELSE offset + limit)

\* get_pending_reviews(limit, offset, priority_filter): the ids of the
\* items in the order returned, and total_count
get_pending_reviews(limit, offset, priority_filter) ==
    LET query == Ascending({i \in RecordIds :
                    PendingQueryMatches(verification_records[i], priority_filter)})
    IN /\ pending_reviews' =
             [limit |-> limit, offset |-> offset,
              priority_filter |-> priority_filter,
              items |-> Page(query, offset, limit),
              total_count |-> Len(query)]
       /\ UNCHANGED db_vars

(***************************************************************************)
(* SpecListing: pages of the review queue over bounded tables              *)
(***************************************************************************)
InitListing ==
    /\ EntityInit
    /\ MatcherInit
    /\ ReviewInit
    /\ UploadInit
    /\ TaskInit
    /\ DecisionInit /\ OuterInit
    /\ \E n \in 1..MaxRecords : verification_records \in [1..n -> ReviewRows]
    /\ \E doc_status \in {"OCR_COMPLETED", "FAILED"} :
          documents = ("D1" :> Document("digest_a", StoragePath("D1"), doc_status))
    /\ templates = <<>>
    /\ template_data = {}

GetPendingReviews ==
    /\ \E limit \in 1..MaxCount, offset \in 0..MaxCount - 1,
          priority_filter \in PriorityFilters :
          get_pending_reviews(limit, offset, priority_filter)
    /\ UNCHANGED <<entity_vars, matcher_vars, review_vars, upload_vars,
                   task_vars, decision_vars, webhook_vars, pool_vars>>

NextListing == GetPendingReviews

SpecListing == InitListing /\ [][NextListing]_vars

WebhookIds == <<"W1", "W2", "W3">>

\* one of the valid_events of create_webhook, and a name that is none
ValidEvents == {"document.passed"}
EventTypes == ValidEvents \cup {"document.lost"}

\* the ids create_webhook can still hand out (uuid4: none that is in use)
FreeWebhookIds ==
    {WebhookIds[i] : i \in 1..MaxWebhooks} \ DOMAIN webhooks_db

\* create_webhook: every event must be a valid one, else 400 and no entry
create_webhook(webhook_id, events, active) ==
    /\ webhook_id \in FreeWebhookIds
    /\ events # {}
    /\ IF events \subseteq ValidEvents
       THEN webhooks_db' =
                (webhook_id :> [events |-> events, active |-> active])
                    @@ webhooks_db
       ELSE UNCHANGED webhooks_db
    /\ UNCHANGED <<deliveries_db, webhook_deliveries>>

\* update_webhook: events and active are replaced when given (NULL and <<>>
\* stand for an absent field), the events unvalidated; an unknown id is
\* answered 404
update_webhook(webhook_id, events, active) ==
    /\ IF webhook_id \in DOMAIN webhooks_db
       THEN webhooks_db' = [webhooks_db EXCEPT
                ![webhook_id].events = IF events = {NULL} THEN @ ELSE events,
                ![webhook_id].active = IF active = <<>> THEN @ ELSE active[1]]
       ELSE UNCHANGED webhooks_db
    /\ UNCHANGED <<deliveries_db, webhook_deliveries>>

\* delete_webhook
delete_webhook(webhook_id) ==
    /\ webhook_id \in DOMAIN webhooks_db
    /\ webhooks_db' = [w \in DOMAIN webhooks_db \ {webhook_id} |-> webhooks_db[w]]
    /\ UNCHANGED <<deliveries_db, webhook_deliveries>>

\* the webhooks of ids in the order of WebhookIds
InOrder(ids) ==
    LET indexes == {i \in DOMAIN WebhookIds : WebhookIds[i] \in ids}
        place(k) == CHOOSE i \in indexes :
                        Cardinality({j \in indexes : j < i}) = k - 1
    IN [k \in 1..Cardinality(indexes) |-> WebhookIds[place(k)]]

\* the delivery record dispatch_webhook_event writes for one webhook
Delivery(webhook_id, event_type) ==
    [webhook_id |-> webhook_id, event_type |-> event_type,
     status |-> "pending", attempt_count |-> 0]

\* a dispatch that does not look at the active flag
DispatchToInactiveToo(event_type) ==
    LET relevant_webhooks ==
            InOrder({w \in DOMAIN webhooks_db :
                        event_type \in webhooks_db[w].events})
    IN /\ Len(deliveries_db) + Len(relevant_webhooks) <= MaxDeliveries
       /\ deliveries_db' = deliveries_db \o
              [k \in 1..Len(relevant_webhooks) |->
                  Delivery(relevant_webhooks[k], event_type)]
       /\ UNCHANGED <<webhooks_db, webhook_deliveries>>

\* dispatch_webhook_event(event_type, data): one delivery record for each
\* webhook that is active and lists the event type; nothing is sent
dispatch_webhook_event(event_type) ==
    LET relevant_webhooks ==
            InOrder({w \in DOMAIN webhooks_db :
                        /\ webhooks_db[w].active
                        /\ event_type \in webhooks_db[w].events})
    IN /\ Len(deliveries_db) + Len(relevant_webhooks) <= MaxDeliveries
       /\ deliveries_db' = deliveries_db \o
              [k \in 1..Len(relevant_webhooks) |->
                  Delivery(relevant_webhooks[k], event_type)]
       /\ UNCHANGED <<webhooks_db, webhook_deliveries>>

(***************************************************************************)
(* SpecWebhook: registrations changing while events are dispatched         *)
(***************************************************************************)
WebhookFrame ==
    UNCHANGED <<entity_vars, matcher_vars, review_vars, db_vars, upload_vars,
                task_vars, decision_vars, listing_vars, pool_vars>>

InitWebhook ==
    /\ EntityInit /\ MatcherInit /\ ReviewInit /\ DbInit /\ UploadInit
    /\ TaskInit /\ DecisionInit /\ OuterInit

CreateWebhook ==
    /\ \E i \in 1..MaxWebhooks, events \in SUBSET EventTypes, active \in BOOLEAN :
          create_webhook(WebhookIds[i], events, active)
    /\ WebhookFrame

UpdateWebhook ==
    /\ \E i \in 1..MaxWebhooks,
          events \in {{NULL}} \cup SUBSET EventTypes,
          active \in {<<>>, <<TRUE>>, <<FALSE>>} :
          update_webhook(WebhookIds[i], events, active)
    /\ WebhookFrame

DeleteWebhook ==
    /\ \E i \in 1..MaxWebhooks : delete_webhook(WebhookIds[i])
    /\ WebhookFrame

DispatchWebhookEvent ==
    /\ \E event_type \in EventTypes : dispatch_webhook_event(event_type)
    /\ WebhookFrame

NextWebhook ==
    \/ CreateWebhook
    \/ UpdateWebhook
    \/ DeleteWebhook
    \/ DispatchWebhookEvent

SpecWebhook == InitWebhook /\ [][NextWebhook]_vars

\* C25: the delivery records a dispatch adds are all pending, without
\* attempts and of one event type; among them each webhook that was active
\* and listed that type when the dispatch ran has exactly one, and every
\* other webhook none; the records that existed stay as they were.
C25_OneDeliveryPerSubscriber ==
    [][deliveries_db' # deliveries_db =>
          LET old == Len(deliveries_db)
              added == {k \in DOMAIN deliveries_db' : k > old}
              event_type == deliveries_db'[old + 1].event_type
          IN /\ SubSeq(deliveries_db', 1, old) = deliveries_db
             /\ \A k \in added :
                   /\ deliveries_db'[k].status = "pending"
                   /\ deliveries_db'[k].attempt_count = 0
                   /\ deliveries_db'[k].event_type = event_type
             /\ \A i \in DOMAIN WebhookIds :
                   Cardinality({k \in added :
                       deliveries_db'[k].webhook_id = WebhookIds[i]})
                     = IF /\ WebhookIds[i] \in DOMAIN webhooks_db
                          /\ webhooks_db[WebhookIds[i]].active
                          /\ event_type \in webhooks_db[WebhookIds[i]].events
                       THEN 1 ELSE 0]_vars

\* two dispatches of one event type each reached the one active subscriber,
\* and a second webhook that lists the type but is inactive has no record
C25_Witness ==
    /\ Len(deliveries_db) = 2
    /\ deliveries_db[1] = deliveries_db[2]
    /\ deliveries_db[1].webhook_id \in DOMAIN webhooks_db
    /\ webhooks_db[deliveries_db[1].webhook_id].active
    /\ \E w \in DOMAIN webhooks_db :
          /\ w # deliveries_db[1].webhook_id
          /\ ~webhooks_db[w].active
          /\ deliveries_db[1].event_type \in webhooks_db[w].events

(***************************************************************************)
(* services/webhook_service.py : _deliver_webhook, retry_failed_webhooks   *)
(***************************************************************************)
WebhookMaxRetries == 3

\* _deliver_webhook: a new row is committed as pending; building the request
\* headers then reads settings.app_name and settings.version, which Settings
\* (APP_NAME, no version) does not define, so the handler marks the row
\* failed and returns False before any request is sent.  origin names the
\* row of the send this attempt descends from.
deliver_webhook(rows, event_type, origin) ==
    Append(rows, [event_type |-> event_type, status |-> "failed",
                  retry_count |-> 0, response_status |-> NoNumber,
                  origin |-> origin])

\* the rows retry_failed_webhooks selects
FailedDeliveries(rows) ==
    {i \in DOMAIN rows : /\ rows[i].status = "failed"
                         /\ rows[i].retry_count < WebhookMaxRetries}

\* the k-th smallest member of a set of row numbers
NthRow(S, k) ==
    CHOOSE i \in S : Cardinality({j \in S : j < i}) = k - 1

\* retry_failed_webhooks: every selected row is delivered again, which adds
\* a row of its own, and the selected row's retry_count grows by one
retry_failed_webhooks ==
    LET failed_deliveries == FailedDeliveries(webhook_deliveries)
        n == Cardinality(failed_deliveries)
        old == Len(webhook_deliveries)
    IN /\ failed_deliveries # {}
       /\ old + n <= MaxAttemptRows
       /\ webhook_deliveries' =
             [i \in 1..(old + n) |->
                 IF i > old
                   THEN LET delivery ==
                                webhook_deliveries[NthRow(failed_deliveries,
                                                          i - old)]
                        IN deliver_webhook(<<>>, delivery.event_type,
                                           delivery.origin)[1]
                 ELSE IF i \in failed_deliveries
                   THEN [webhook_deliveries[i] EXCEPT !.retry_count = @ + 1]
                 ELSE webhook_deliveries[i]]
       /\ UNCHANGED <<webhooks_db, deliveries_db>>

\* the events whose send method reaches _deliver_webhook
\* (send_manual_review_required raises on settings.app_base_url before)
SentEvents == {"document.processed", "verification.completed"}

\* send_document_processed, send_verification_completed: one delivery of a
\* new event
send_webhook(event_type) ==
    /\ Len(webhook_deliveries) < MaxAttemptRows
    /\ webhook_deliveries' =
           deliver_webhook(webhook_deliveries, event_type,
                           Len(webhook_deliveries) + 1)
    /\ UNCHANGED <<webhooks_db, deliveries_db>>

(***************************************************************************)
(* SpecDelivery: events sent and the failed ones retried                   *)
(***************************************************************************)
SendWebhook ==
    /\ \E event_type \in SentEvents : send_webhook(event_type)
    /\ WebhookFrame

RetryFailedWebhooks == retry_failed_webhooks /\ WebhookFrame

NextDelivery ==
    \/ SendWebhook
    \/ RetryFailedWebhooks

SpecDelivery == InitWebhook /\ [][NextDelivery]_vars

\* the delivery attempts recorded for the send whose row is origin
AttemptsOf(origin) ==
    {i \in DOMAIN webhook_deliveries : webhook_deliveries[i].origin = origin}

\* C26: over any number of retry runs, the delivery attempts made for one
\* original send number at most 1 + max_retries.
C26_AttemptsBounded ==
    \A origin \in DOMAIN webhook_deliveries :
        Cardinality(AttemptsOf(origin)) <= 1 + WebhookMaxRetries

\* C27: sweeps do not re-run a failing document without end: a run that was
\* itself requeued by a sweep leaves no record that a later sweep requeues
\* again, so every requeue is the requeue of a submitted task.
C27_RequeuedRunsAreNotRequeued ==
    \A j \in DOMAIN tasks :
        tasks[j].requeue_of # NULL =>
            tasks[tasks[j].requeue_of].requeue_of = NULL

\* C29: a message sent by the sweep carries the template_id of the task
\* whose failure it answers.
C29_RequeueKeepsTemplate ==
    \A j \in DOMAIN tasks :
        tasks[j].requeue_of # NULL =>
            tasks[j].template_id = tasks[tasks[j].requeue_of].template_id

(***************************************************************************)
(* tasks/document_tasks.py : reprocess_document_async as a task of its own *)
(***************************************************************************)
\* the pcs at which a process_document_async message is done with
FinishedPcs == {"succeeded", "failed", "insert_refused", "revoked"}

\* the worker processes that hold a task: worker_prefetch_multiplier=1, so
\* a process holds the one task it executes
Busy ==
    Cardinality({r \in DOMAIN reprocess_tasks :
                    reprocess_tasks[r].pc = "waiting"})
      + Cardinality({k \in DOMAIN tasks : tasks[k].pc \in RunningPcs})

\* submit_document_reprocessing: the message goes to the queue; as many
\* are submitted as there are worker processes to hold
submit_document_reprocessing(document_id, template_id) ==
    /\ Len(reprocess_tasks) < PoolSize
    /\ reprocess_tasks' = Append(reprocess_tasks,
           [document_id |-> document_id, template_id |-> template_id,
            pc |-> "queued", child |-> NULL])
    /\ UNCHANGED <<task_vars, db_vars, upload_vars>>

\* a free worker process takes the message: a missing document raises
\* ValueError, else the document is committed as PROCESSING, the
\* process_document_async message is sent and the task enters .get()
reprocess_document_async(r) ==
    /\ reprocess_tasks[r].pc = "queued"
    /\ Busy < PoolSize
    /\ IF reprocess_tasks[r].document_id \in DOMAIN documents
       THEN /\ ReprocessDocument(reprocess_tasks[r].document_id,
                                 reprocess_tasks[r].template_id)
            /\ reprocess_tasks' = [reprocess_tasks EXCEPT
                                     ![r].pc = "waiting",
                                     ![r].child = NewTaskId(1)]
       ELSE /\ reprocess_tasks' = [reprocess_tasks EXCEPT ![r].pc = "failed"]
            /\ UNCHANGED <<task_vars, db_vars, upload_vars>>

\* a .get() that only ends with the result of the inner task
GetWithoutDeadline(r) ==
    /\ reprocess_tasks[r].pc = "waiting"
    /\ tasks[reprocess_tasks[r].child].pc \in FinishedPcs
    /\ reprocess_tasks' = [reprocess_tasks EXCEPT
          ![r].pc = IF tasks[reprocess_tasks[r].child].pc = "succeeded"
                    THEN "succeeded" ELSE "failed"]
    /\ UNCHANGED <<task_vars, db_vars, upload_vars>>

\* the end of .get() inside the task.  Celery refuses a synchronous wait
\* in a task with RuntimeError at once; where it does wait, the wait ends
\* with the result of the inner task, or at task_soft_time_limit (240 s)
\* with SoftTimeLimitExceeded, at the latest at task_time_limit (300 s)
\* with the process replaced.  Every exception passes `except Exception:
\* raise`, and the worker process is free again.
get(r) ==
    /\ reprocess_tasks[r].pc = "waiting"
    /\ \/ reprocess_tasks' = [reprocess_tasks EXCEPT ![r].pc = "failed"]
       \/ /\ tasks[reprocess_tasks[r].child].pc \in FinishedPcs
          /\ reprocess_tasks' = [reprocess_tasks EXCEPT
                ![r].pc = IF tasks[reprocess_tasks[r].child].pc = "succeeded"
                          THEN "succeeded" ELSE "failed"]
    /\ UNCHANGED <<task_vars, db_vars, upload_vars>>

(***************************************************************************)
(* SpecReprocess: reprocessing tasks and the tasks they send, on one pool  *)
(***************************************************************************)
PoolFrame ==
    UNCHANGED <<entity_vars, matcher_vars, review_vars, decision_vars,
                listing_vars, webhook_vars>>

SubmitReprocessing ==
    /\ \E i \in 1..2, template_id \in TemplateArguments :
          submit_document_reprocessing(DocumentIds[i], template_id)
    /\ PoolFrame

ReprocessStart ==
    /\ \E r \in DOMAIN reprocess_tasks : reprocess_document_async(r)
    /\ PoolFrame

ReprocessGet ==
    /\ \E r \in DOMAIN reprocess_tasks : get(r)
    /\ PoolFrame

\* a process_document_async message is taken by a free worker process
PoolExecutionStart ==
    /\ Busy < PoolSize
    /\ ExecutionStart

NextReprocess ==
    \/ SubmitReprocessing
    \/ ReprocessStart
    \/ ReprocessGet
    \/ PoolExecutionStart
    \/ LoadDocument
    \/ Download
    \/ DownloadFails
    \/ TaskOcrExtract
    \/ TaskOcrExtractFails
    \/ TaskVerifyDocument

\* the steps of the worker pool on one process_document_async message
PoolWorkerStep(k) ==
    /\ k \in DOMAIN tasks
    /\ tasks[k].pc = "queued" => Busy < PoolSize
    /\ WorkerStep(k)

\* the steps of the worker pool and of the clock on one reprocessing task
ReprocessStep(r) ==
    /\ r \in DOMAIN reprocess_tasks
    /\ reprocess_document_async(r) \/ get(r)
    /\ PoolFrame

\* the pool executes what it can, and the limits of a waiting task expire
SpecReprocess ==
    /\ InitTask
    /\ [][NextReprocess]_vars
    /\ \A i \in DOMAIN TaskIds : WF_vars(PoolWorkerStep(TaskIds[i]))
    /\ \A r \in 1..PoolSize : WF_vars(ReprocessStep(r))

\* C28: every reprocessing task that was submitted finishes, and a document
\* it set to PROCESSING is later in another status.
C28_ReprocessFinishes ==
    \A r \in 1..PoolSize :
        /\ (r \in DOMAIN reprocess_tasks)
              ~> /\ r \in DOMAIN reprocess_tasks
                 /\ reprocess_tasks[r].pc \in {"succeeded", "failed"}
        /\ (r \in DOMAIN reprocess_tasks /\ reprocess_tasks[r].pc = "waiting")
              ~> /\ r \in DOMAIN reprocess_tasks
                 /\ reprocess_tasks[r].document_id \in DOMAIN documents
                 /\ documents[reprocess_tasks[r].document_id].status
                       # "PROCESSING"

\* every worker process is held by a reprocessing task that waits for a task
\* which has not been started
C28_Witness ==
    /\ Cardinality({r \in DOMAIN reprocess_tasks :
                       reprocess_tasks[r].pc = "waiting"}) = PoolSize
    /\ \E r \in DOMAIN reprocess_tasks :
          /\ reprocess_tasks[r].pc = "waiting"
          /\ tasks[reprocess_tasks[r].child].pc = "queued"
          /\ documents[reprocess_tasks[r].document_id].status = "PROCESSING"

\* C30: _verify_document runs as one step, so every record in the table
\* belongs to a call that has returned or raised; none of them is pending.
C30_NoRecordLeftPending ==
    \A i \in DOMAIN verification_records :
        verification_records[i].status # "PENDING"

====
